---- MODULE Spec2Model ----
(***************************************************************************)
(* Model of lib/fetch-stock-prices.py: the four calculators of the Psi-EMA *)
(* bundle (calculate_ema, calc_theta_from_flow, calc_z, calc_r) and the    *)
(* control flow of get_stock_data that invokes them.                       *)
(*                                                                         *)
(* Prices are closing prices in hundredths (cents); a price c stands for   *)
(* the binary64 number nearest to c/100, which is what a decimal literal   *)
(* or a parsed quote yields.  All arithmetic of the calculators is IEEE    *)
(* binary64 with round-to-nearest-even, modelled bit-exactly on numbers in *)
(* the normal range: a number is a sign, a 53-bit mantissa and an exponent,*)
(* the mantissa held as little-endian limbs because it exceeds the range   *)
(* of the model checker's integers.                                        *)
(***************************************************************************)
EXTENDS Integers, Sequences, FiniteSets, TLC

(***************************************************************************)
(* Natural numbers of arbitrary size: little-endian sequences of limbs in  *)
(* base 2^15, without leading zero limbs; zero is the empty sequence.      *)
(***************************************************************************)
LimbBits == 15
Base == 2^LimbBits

Limb(a, i) == IF i <= Len(a) THEN a[i] ELSE 0

RECURSIVE BigNorm(_)
BigNorm(a) ==
  IF a = <<>> THEN a
  ELSE IF a[Len(a)] = 0 THEN BigNorm(SubSeq(a, 1, Len(a) - 1)) ELSE a

RECURSIVE BigFromNat(_)
BigFromNat(n) == IF n = 0 THEN <<>> ELSE <<n % Base>> \o BigFromNat(n \div Base)

RECURSIVE BigToNat(_)
BigToNat(a) == IF a = <<>> THEN 0 ELSE a[1] + Base * BigToNat(Tail(a))

RECURSIVE BigAddFrom(_, _, _, _)
BigAddFrom(a, b, i, c) ==
  IF i > Len(a) /\ i > Len(b) THEN (IF c = 0 THEN <<>> ELSE <<c>>)
  ELSE LET s == Limb(a, i) + Limb(b, i) + c
       IN  <<s % Base>> \o BigAddFrom(a, b, i + 1, s \div Base)

BigAdd(a, b) == BigAddFrom(a, b, 1, 0)

\* a - b for a >= b
RECURSIVE BigSubFrom(_, _, _, _)
BigSubFrom(a, b, i, c) ==
  IF i > Len(a) THEN <<>>
  ELSE LET d == a[i] - Limb(b, i) - c
       IN  IF d < 0 THEN <<d + Base>> \o BigSubFrom(a, b, i + 1, 1)
           ELSE <<d>> \o BigSubFrom(a, b, i + 1, 0)

BigSub(a, b) == BigNorm(BigSubFrom(a, b, 1, 0))

RECURSIVE BigCmpFrom(_, _, _)
BigCmpFrom(a, b, i) ==
  IF i = 0 THEN 0
  ELSE IF a[i] < b[i] THEN -1
  ELSE IF a[i] > b[i] THEN 1
  ELSE BigCmpFrom(a, b, i - 1)

\* -1, 0, 1 as a < b, a = b, a > b
BigCmp(a, b) ==
  IF Len(a) < Len(b) THEN -1
  ELSE IF Len(a) > Len(b) THEN 1
  ELSE BigCmpFrom(a, b, Len(a))

RECURSIVE BigMulSmallFrom(_, _, _, _)
BigMulSmallFrom(a, d, i, c) ==
  IF i > Len(a) THEN (IF c = 0 THEN <<>> ELSE <<c>>)
  ELSE LET p == a[i] * d + c
       IN  <<p % Base>> \o BigMulSmallFrom(a, d, i + 1, p \div Base)

\* a * d for 0 <= d < Base
BigMulSmall(a, d) == IF d = 0 THEN <<>> ELSE BigMulSmallFrom(a, d, 1, 0)

BigShlLimbs(a, q) == IF a = <<>> THEN a ELSE [i \in 1..q |-> 0] \o a

RECURSIVE BigMulFrom(_, _, _)
BigMulFrom(a, b, i) ==
  IF i > Len(b) THEN <<>>
  ELSE BigAdd(BigShlLimbs(BigMulSmall(a, b[i]), i - 1), BigMulFrom(a, b, i + 1))

BigMul(a, b) == BigMulFrom(a, b, 1)

\* floor(a / d) for 0 < d <= Base, from the top limb down with remainder r
RECURSIVE BigDivSmallFrom(_, _, _, _)
BigDivSmallFrom(a, d, i, r) ==
  IF i = 0 THEN <<>>
  ELSE LET n == r * Base + a[i]
       IN  BigDivSmallFrom(a, d, i - 1, n % d) \o <<n \div d>>

BigDivSmall(a, d) == BigNorm(BigDivSmallFrom(a, d, Len(a), 0))

\* a * 2^k
BigShl(a, k) == BigShlLimbs(BigMulSmall(a, 2^(k % LimbBits)), k \div LimbBits)

\* floor(a / 2^k)
BigShr(a, k) ==
  LET q == k \div LimbBits
  IN  IF q >= Len(a) THEN <<>>
      ELSE BigDivSmall(SubSeq(a, q + 1, Len(a)), 2^(k % LimbBits))

RECURSIVE BitLen(_)
BitLen(n) == IF n = 0 THEN 0 ELSE 1 + BitLen(n \div 2)

BigBitLen(a) == IF a = <<>> THEN 0 ELSE LimbBits * (Len(a) - 1) + BitLen(a[Len(a)])

BigIsOdd(a) == a # <<>> /\ a[1] % 2 = 1

\* Restoring division, one quotient bit per step: the quotient of r * 2^k by d
\* and whether the remainder is nonzero, for r < 2 * d.  q is the quotient so
\* far; it is inspected at every step, which keeps the evaluation strict.
RECURSIVE BigDivBits(_, _, _, _)
BigDivNext(d, k, q, rest) ==
  IF Len(q) >= 0 /\ k = 0 THEN [quot |-> q, inexact |-> rest # <<>>]
  ELSE BigDivBits(BigAdd(rest, rest), d, k - 1, BigAdd(q, q))

BigDivBit(r, d, k, q, fits) ==
  BigDivNext(d, k, IF fits THEN BigAdd(q, <<1>>) ELSE q, IF fits THEN BigSub(r, d) ELSE r)

BigDivBits(r, d, k, q) == BigDivBit(r, d, k, q, BigCmp(r, d) >= 0)

\* The integer nearest to M / 2^k for k > 0, ties to even; q is floor(M / 2^k)
\* and c compares the remainder with 2^(k-1)
BigRoundUp(q, c) == IF c > 0 \/ (c = 0 /\ BigIsOdd(q)) THEN BigAdd(q, <<1>>) ELSE q
BigRoundCut(M, k, q) == BigRoundUp(q, BigCmp(BigSub(M, BigShl(q, k)), BigShl(<<1>>, k - 1)))
BigRoundShr(M, k) == BigRoundCut(M, k, BigShr(M, k))

(***************************************************************************)
(* binary64 numbers.  [s, m, e] stands for (-1)^s * m * 2^e with m either  *)
(* zero (e = 0) or of exactly MantBits bits.  NonFinite stands for the     *)
(* infinities and NaN, which only a division by zero produces here.        *)
(***************************************************************************)
MantBits == 53

FZero(s) == [s |-> s, m |-> <<>>, e |-> 0]
NonFinite == [s |-> 0, m |-> <<>>, e |-> 1]
IsNonFinite(a) == a.m = <<>> /\ a.e = 1
IsZero(a) == a.m = <<>> /\ a.e = 0

\* The binary64 number nearest to (-1)^s * M * 2^e, ties to even.  L is the
\* number of bits of M; rounding M to MantBits bits may carry into one more
FRoundCarry(s, q, e) ==
  IF BigBitLen(q) > MantBits THEN [s |-> s, m |-> BigShr(q, 1), e |-> e + 1]
  ELSE [s |-> s, m |-> q, e |-> e]

FRoundBits(s, M, e, L) ==
  IF L <= MantBits
  THEN [s |-> s, m |-> BigShl(M, MantBits - L), e |-> e - (MantBits - L)]
  ELSE FRoundCarry(s, BigRoundShr(M, L - MantBits), e + (L - MantBits))

FRound(s, M, e) == IF M = <<>> THEN FZero(s) ELSE FRoundBits(s, M, e, BigBitLen(M))

FromInt(n) == FRound(IF n < 0 THEN 1 ELSE 0, BigFromNat(IF n < 0 THEN -n ELSE n), 0)

FNeg(a) == IF IsNonFinite(a) THEN a ELSE [a EXCEPT !.s = 1 - a.s]
FAbs(a) == IF IsNonFinite(a) THEN a ELSE [a EXCEPT !.s = 0]

\* -1, 0, 1 as |a| < |b|, |a| = |b|, |a| > |b|, for finite a and b
FCmpMag(a, b) ==
  IF IsZero(a) THEN (IF IsZero(b) THEN 0 ELSE -1)
  ELSE IF IsZero(b) THEN 1
  ELSE IF a.e < b.e THEN -1
  ELSE IF a.e > b.e THEN 1
  ELSE BigCmp(a.m, b.m)

\* -1, 0, 1 as a < b, a = b, a > b, for finite a and b (-0 equals +0)
FCmp(a, b) ==
  IF IsZero(a) /\ IsZero(b) THEN 0
  ELSE IF a.s # b.s THEN (IF a.s = 1 THEN -1 ELSE 1)
  ELSE (IF a.s = 0 THEN 1 ELSE -1) * FCmpMag(a, b)

\* Comparisons with a non-finite operand are false, as with NaN
FLess(a, b) == ~IsNonFinite(a) /\ ~IsNonFinite(b) /\ FCmp(a, b) < 0
FLeq(a, b) == ~IsNonFinite(a) /\ ~IsNonFinite(b) /\ FCmp(a, b) <= 0
FEq(a, b) == ~IsNonFinite(a) /\ ~IsNonFinite(b) /\ FCmp(a, b) = 0

\* A and B are the mantissas aligned to the exponent e, c compares them
FAddAligned(a, b, A, B, c, e) ==
  IF a.s # b.s /\ c = 0 THEN FZero(0)
  ELSE FRound(IF a.s = b.s \/ c > 0 THEN a.s ELSE b.s,
              IF a.s = b.s THEN BigAdd(A, B)
              ELSE IF c > 0 THEN BigSub(A, B) ELSE BigSub(B, A), e)

FAddAt(a, b, A, B, e) == FAddAligned(a, b, A, B, BigCmp(A, B), e)

FAddFinite(a, b, e) == FAddAt(a, b, BigShl(a.m, a.e - e), BigShl(b.m, b.e - e), e)

FAdd(a, b) ==
  IF IsNonFinite(a) \/ IsNonFinite(b) THEN NonFinite
  ELSE IF IsZero(a) /\ IsZero(b) THEN FZero(IF a.s = 1 /\ b.s = 1 THEN 1 ELSE 0)
  ELSE IF IsZero(a) THEN b
  ELSE IF IsZero(b) THEN a
  ELSE FAddFinite(a, b, IF a.e < b.e THEN a.e ELSE b.e)

FSub(a, b) == FAdd(a, FNeg(b))

FMul(a, b) ==
  IF IsNonFinite(a) \/ IsNonFinite(b) THEN NonFinite
  ELSE IF IsZero(a) \/ IsZero(b) THEN FZero((a.s + b.s) % 2)
  ELSE FRound((a.s + b.s) % 2, BigMul(a.m, b.m), a.e + b.e)

\* d is the quotient of the mantissas to MantBits + 2 bits with its sticky bit
FDivRound(s, d, e) ==
  FRound(s, BigAdd(BigAdd(d.quot, d.quot), IF d.inexact THEN <<1>> ELSE <<>>), e)

\* A zero divisor gives an infinity or NaN
FDiv(a, b) ==
  IF IsNonFinite(a) \/ IsNonFinite(b) \/ IsZero(b) THEN NonFinite
  ELSE IF IsZero(a) THEN FZero((a.s + b.s) % 2)
  ELSE FDivRound((a.s + b.s) % 2, BigDivBits(a.m, b.m, MantBits + 2, <<>>),
                 a.e - b.e - (MantBits + 3))

\* The nearest integer, ties to even (rint)
FRint(a) ==
  IF IsNonFinite(a) \/ IsZero(a) \/ a.e >= 0 THEN a
  ELSE FRound(a.s, BigRoundShr(a.m, -a.e), 0)

\* The number a price in hundredths stands for
FromCents(c) == FDiv(FromInt(c), FromInt(100))

(***************************************************************************)
(* State.  One calculator call (or one run of get_stock_data) per          *)
(* behaviour: the inputs are chosen in the initial state.                  *)
(***************************************************************************)
VARIABLES
  series,      \* the Close column handed to the calculator, in hundredths
  period,      \* calculate_ema's period
  multiplier,  \* calculate_ema's local
  ema,         \* calculate_ema's running average
  idx,         \* position of the for loop in series (1-based), 0 before it
  steps,       \* number of executions of the loop body
  pc,          \* position in the code
  result,      \* the returned value
  current,     \* calc_z's second argument
  z_curr,      \* calc_r's local
  z_prev,      \* calc_r's local
  ratio,       \* calc_r's local r, before clamping
  divisors,    \* the divisors of the float divisions executed, in order
  hist_daily,  \* get_stock_data: the daily frame
  hist_weekly, \* get_stock_data: the weekly frame
  env,         \* get_stock_data: what the data provider does
  calls        \* get_stock_data: the calculator calls made, in order

emaVars == <<period, multiplier, ema, idx, steps>>
zrVars == <<current, z_curr, z_prev, ratio, divisors>>
stockVars == <<hist_daily, hist_weekly, env, calls>>
vars == <<series, pc, result, emaVars, zrVars, stockVars>>

\* Python's None, and a local that is not yet bound
None == [none |-> TRUE]
Unbound == [unbound |-> TRUE]

\* Bounds of the explored inputs
MaxLen == 4
MaxPeriod == 4

\* Closing prices (hundredths) the explored series are made of
EmaPrices == {11, 10000, -300}

\* The series of the specification's worked example
WorkedSeries == <<10000, 10100, 9900, 10500, 10200>>

RECURSIVE SeqsUpTo(_, _)
SeqsUpTo(S, n) ==
  IF n = 0 THEN {<<>>}
  ELSE LET shorter == SeqsUpTo(S, n - 1)
       IN  shorter \cup {Append(q, x) : q \in {r \in shorter : Len(r) = n - 1}, x \in S}

EmaSeries == SeqsUpTo(EmaPrices, MaxLen) \cup {WorkedSeries}

\* Every price of the explored series, with the number it stands for
ThetaPrices == {-300, 0, 11, 10200, 10500}

\* The series handed to calc_z and calc_r: a shape (flat, a rising ramp, a
\* saw over three levels) of any length up to the bound, its last zero, one
\* or two prices replaced by arbitrary tail prices
MaxZLen == 22
MaxRLen == 36
Shapes == {"flat", "ramp", "saw"}
SawLevels == <<10100, 10170, 10300>>
ShapeAt(kind, i) ==
  CASE kind = "flat" -> 10170
    [] kind = "ramp" -> 10000 + 10 * i
    [] kind = "saw" -> SawLevels[(i % 3) + 1]
TailPrices == {5000, 10170, 10180, 12000}
Tails == {<<>>} \cup {<<a>> : a \in TailPrices} \cup {<<a, b>> : a, b \in TailPrices}
WithTail(kind, n, tail) ==
  [i \in 1..n |-> IF i > n - Len(tail) THEN tail[i - (n - Len(tail))]
                  ELSE ShapeAt(kind, i)]
ShapedSeries(maxLen) ==
  UNION {{WithTail(kind, n, tail) : kind \in Shapes, tail \in {t \in Tails : Len(t) <= n}} :
           n \in 0..maxLen}
ZSeries == ShapedSeries(MaxZLen)
RSeries == ShapedSeries(MaxRLen)
ShapePrices ==
  {ShapeAt(kind, i) : kind \in Shapes, i \in 1..(IF MaxZLen > MaxRLen THEN MaxZLen ELSE MaxRLen)}

AllPrices ==
  EmaPrices \cup ThetaPrices \cup ShapePrices \cup TailPrices
    \cup {WorkedSeries[i] : i \in 1..Len(WorkedSeries)}
PriceTable == [c \in AllPrices |-> FromCents(c)]

\* series.iloc[i - 1]
Close(prices, i) == PriceTable[prices[i]]

(***************************************************************************)
(* calculate_ema                                                           *)
(***************************************************************************)
\* Mutant: the length test off by one
EmaTooShort_OffByOne(prices, p) == Len(prices) <= p

\* line 18: the series is too short for the period
EmaTooShort(prices, p) == Len(prices) < p

\* Mutant: the multiplier 2 / period
EmaMultiplier_NoPlusOne(p) == FDiv(FromInt(2), FromInt(p))

\* line 20
MultiplierTable == [p \in 1..MaxPeriod |-> FDiv(FromInt(2), FromInt(p + 1))]
EmaMultiplier(p) ==
  IF p \in DOMAIN MultiplierTable THEN MultiplierTable[p]
  ELSE FDiv(FromInt(2), FromInt(p + 1))

\* Mutant: the seed is the first element of the trailing period-sized window
EmaSeed_TrailingWindow(prices, p) == Close(prices, Len(prices) - p + 1)

\* line 21: the seed is the first element of the whole series
EmaSeed(prices, p) == Close(prices, 1)

\* Mutant: the old average weighted by the multiplier too
EmaUpdate_SameWeight(val, avg, m) == FAdd(FMul(val, m), FMul(avg, m))

\* line 23
EmaUpdate(val, avg, m) == FAdd(FMul(val, m), FMul(avg, FSub(FromInt(1), m)))

\* lines 18-21
EmaEnter ==
  /\ pc = "ema_entry"
  /\ IF EmaTooShort(series, period)
     THEN /\ result' = None
          /\ pc' = "done"
          /\ UNCHANGED <<multiplier, ema, idx>>
     ELSE /\ multiplier' = EmaMultiplier(period)
          /\ ema' = EmaSeed(series, period)
          /\ idx' = 2
          /\ pc' = "ema_loop"
          /\ UNCHANGED result
  /\ UNCHANGED <<series, period, steps, zrVars, stockVars>>

\* lines 22-23: one iteration over series.iloc[1:]
EmaStep ==
  /\ pc = "ema_loop"
  /\ idx <= Len(series)
  /\ ema' = EmaUpdate(Close(series, idx), ema, multiplier)
  /\ idx' = idx + 1
  /\ steps' = steps + 1
  /\ UNCHANGED <<series, period, multiplier, pc, result, zrVars, stockVars>>

\* line 24
EmaReturn ==
  /\ pc = "ema_loop"
  /\ idx > Len(series)
  /\ result' = ema
  /\ pc' = "done"
  /\ UNCHANGED <<series, period, multiplier, ema, idx, steps, zrVars, stockVars>>

\* The locals of the functions that are not running
IdleEma ==
  period = 0 /\ multiplier = Unbound /\ ema = Unbound /\ idx = 0 /\ steps = 0

IdleZR ==
  /\ current = Unbound
  /\ z_curr = Unbound
  /\ z_prev = Unbound
  /\ ratio = Unbound
  /\ divisors = <<>>

IdleStock ==
  hist_daily = Unbound /\ hist_weekly = Unbound /\ env = Unbound /\ calls = <<>>

InitEma ==
  /\ series \in EmaSeries
  /\ period \in 1..MaxPeriod
  /\ multiplier = Unbound
  /\ ema = Unbound
  /\ idx = 0
  /\ steps = 0
  /\ pc = "ema_entry"
  /\ result = Unbound
  /\ IdleZR
  /\ IdleStock

NextEma == EmaEnter \/ EmaStep \/ EmaReturn

SpecEma == InitEma /\ [][NextEma]_vars

\* The whole of calculate_ema as a function, for its callers
RECURSIVE EmaLoop(_, _, _, _)
EmaLoop(prices, i, avg, m) ==
  IF avg.s >= 0 /\ i > Len(prices) THEN avg
  ELSE EmaLoop(prices, i + 1, EmaUpdate(Close(prices, i), avg, m), m)

calculate_ema(prices, p) ==
  IF EmaTooShort(prices, p) THEN None
  ELSE EmaLoop(prices, 2, EmaSeed(prices, p), EmaMultiplier(p))

(***************************************************************************)
(* Properties of calculate_ema, checked under SpecEma                      *)
(***************************************************************************)
IsNumber(x) == "m" \in DOMAIN x /\ ~IsNonFinite(x)

IsConstant(prices) == \A i \in 1..Len(prices) : prices[i] = prices[1]

\* The exactly representable decimal n / d
Dec(n, d) == FDiv(FromInt(n), FromInt(d))

RECURSIVE MinClose(_, _)
MinClose(prices, n) ==
  IF n = 1 THEN Close(prices, 1)
  ELSE LET rest == MinClose(prices, n - 1)
       IN  IF FLess(Close(prices, n), rest) THEN Close(prices, n) ELSE rest

RECURSIVE MaxClose(_, _)
MaxClose(prices, n) ==
  IF n = 1 THEN Close(prices, 1)
  ELSE LET rest == MaxClose(prices, n - 1)
       IN  IF FLess(rest, Close(prices, n)) THEN Close(prices, n) ELSE rest

FMax(a, b) == IF FLess(a, b) THEN b ELSE a

\* (p + 1) * 2^-52 * |a|: the rounding error the running average can
\* accumulate relative to the magnitude a of the averaged values
Tol(p, a) == FMul(FMul(FromInt(p + 1), FRound(0, <<1>>, -52)), FAbs(a))

\* C3: a series shorter than the period gives None without any averaging
\* step; a series at least as long as the period gives a number.
C3_ShortSeriesUnavailable ==
  pc = "done" =>
    /\ (Len(series) < period) <=> (result = None)
    /\ Len(series) < period => steps = 0 /\ ema = Unbound
    /\ Len(series) >= period => IsNumber(result)

C3_Witness ==
  pc = "done" /\ Len(series) > 0 /\ Len(series) < period /\ result = None

\* C4 as stated: the EMA of a constant series of value v, at least as long
\* as the period, is exactly v.
C4_ConstantSeriesExact ==
  (pc = "done" /\ Len(series) >= period /\ IsConstant(series))
    => result = Close(series, 1)

\* C4 amended: the EMA of a constant series of value v, at least as long as
\* the period, is v up to rounding, |ema - v| <= (period + 1) * 2^-52 * |v|,
\* and exactly v for period 1.
C4_ConstantSeriesWithinRounding ==
  (pc = "done" /\ Len(series) >= period /\ IsConstant(series))
    => /\ FLeq(FAbs(FSub(result, Close(series, 1))), Tol(period, Close(series, 1)))
       /\ period = 1 => result = Close(series, 1)

C4_Witness ==
  /\ pc = "done" /\ Len(series) >= period /\ IsConstant(series)
  /\ period > 1 /\ steps >= 1
  /\ result # Close(series, 1)
  /\ FLeq(FAbs(FSub(result, Close(series, 1))), Tol(period, Close(series, 1)))

\* The reference recurrence of the design: seeded with the first element of
\* the whole series, updated over the elements 2..n in time order
RECURSIVE RefEmaWith(_, _, _)
RefEmaWith(prices, n, m) ==
  IF n = 1 THEN Close(prices, 1)
  ELSE FAdd(FMul(Close(prices, n), m),
            FMul(RefEmaWith(prices, n - 1, m), FSub(FromInt(1), m)))

RefEma(prices, n, p) == RefEmaWith(prices, n, FDiv(FromInt(2), FromInt(p + 1)))

\* The running values of the worked example, period 3
WorkedRunning ==
  <<Dec(100, 1), Dec(1005, 10), Dec(9975, 100), Dec(102375, 1000), Dec(1021875, 10000)>>

\* C5: after consuming k elements the running average is the reference
\* recurrence over the first k elements of the whole series, the returned
\* value is the unrounded recurrence over all of it, and the worked example
\* runs through 100.5, 99.75, 102.375 to 102.1875.
C5_MatchesReferenceRecurrence ==
  /\ pc = "ema_loop" => ema = RefEma(series, idx - 1, period)
  /\ (pc = "done" /\ Len(series) >= period)
       => result = RefEma(series, Len(series), period)
  /\ (series = WorkedSeries /\ period = 3 /\ pc = "ema_loop")
       => ema = WorkedRunning[idx - 1]
  /\ (series = WorkedSeries /\ period = 3 /\ pc = "done")
       => result = Dec(1021875, 10000)

C5_Witness ==
  series = WorkedSeries /\ period = 3 /\ pc = "done" /\ result = Dec(1021875, 10000)

\* C10 as stated: after every update the running average lies between the
\* minimum and the maximum of the elements consumed so far, and for period 1
\* the result is the last element.
C10_EmaWithinMinMax ==
  /\ pc = "ema_loop"
       => /\ FLeq(MinClose(series, idx - 1), ema)
          /\ FLeq(ema, MaxClose(series, idx - 1))
  /\ (pc = "done" /\ period = 1 /\ Len(series) >= 1)
       => result = Close(series, Len(series))

\* C10 amended: after every update the running average lies between the
\* minimum and the maximum of the elements consumed so far up to rounding,
\* min - t <= avg <= max + t with t = (period + 1) * 2^-52 * max(|min|, |max|),
\* and for period 1 the result is exactly the last element.
C10_EmaWithinMinMaxUpToRounding ==
  /\ pc = "ema_loop"
       => LET lo == MinClose(series, idx - 1)
              hi == MaxClose(series, idx - 1)
              t == Tol(period, FMax(FAbs(lo), FAbs(hi)))
          IN  /\ FLeq(FSub(lo, t), ema)
              /\ FLeq(ema, FAdd(hi, t))
  /\ (pc = "done" /\ period = 1 /\ Len(series) >= 1)
       => result = Close(series, Len(series))

C10_Witness ==
  /\ pc = "ema_loop" /\ steps >= 2 /\ period > 1 /\ ~IsConstant(series)
  /\ FLess(MinClose(series, idx - 1), ema)
  /\ FLess(ema, MaxClose(series, idx - 1))

(***************************************************************************)
(* calc_theta_from_flow                                                    *)
(*                                                                         *)
(* math.atan2 is evaluated by CORDIC on 28-bit integers, in millionths of  *)
(* a degree; the axes (a zero argument) are the exact cases of atan2.  The *)
(* result of round(theta_deg, 2) is kept as the integer number of          *)
(* hundredths of a degree and the binary64 number nearest to it.           *)
(***************************************************************************)
\* atan(2^-i) for i = 0, 1, ... in millionths of a degree
AtanTable == <<45000000, 26565051, 14036243, 7125016, 3576334, 1789911, 895174, 447614, 223811, 111906, 55953, 27976, 13988, 6994, 3497, 1749, 874, 437, 219, 109, 55, 27, 14, 7, 3, 2, 1>>

CordicBits == 28

\* |a| scaled by 2^(CordicBits - top), as an integer below 2^CordicBits
ScaledInt(a, top) ==
  IF IsZero(a) THEN 0 ELSE BigToNat(BigShr(a.m, top - CordicBits - a.e))

\* The angle of the vector (x, y), x >= 0, y >= 0, in millionths of a degree
RECURSIVE Cordic(_, _, _, _)
Cordic(x, y, z, i) ==
  IF y = 0 \/ i = Len(AtanTable) THEN z
  ELSE IF y > 0
  THEN Cordic(x + y \div 2^i, y - x \div 2^i, z + AtanTable[i + 1], i + 1)
  ELSE Cordic(x - y \div 2^i, y + x \div 2^i, z - AtanTable[i + 1], i + 1)

\* n / d rounded to the nearest integer, ties to even, for n >= 0
RoundHalfEven(n, d) ==
  LET q == n \div d
      r == n % d
  IN  IF 2 * r > d \/ (2 * r = d /\ q % 2 = 1) THEN q + 1 ELSE q

\* round(math.degrees(math.atan2(y, x)), 2) in hundredths of a degree
Atan2Hundredths(y, x) ==
  LET top == IF FCmpMag(x, y) >= 0 THEN x.e + MantBits ELSE y.e + MantBits
      acute == Cordic(ScaledInt(x, top), ScaledInt(y, top), 0, 0)
      angle == IF IsZero(y) THEN (IF x.s = 0 THEN 0 ELSE 180000000)
               ELSE IF IsZero(x) THEN 90000000
               ELSE IF x.s = 0 THEN acute
               ELSE 180000000 - acute
      h == RoundHalfEven(angle, 10000)
  IN  IF y.s = 0 THEN h ELSE -h

\* Mutant: the arguments of atan2 exchanged
ThetaAngle_Swapped(delta, prev) == Atan2Hundredths(prev, delta)

\* lines 70-72: round(math.degrees(math.atan2(delta, prev)), 2), in hundredths
ThetaAngle(delta, prev) == Atan2Hundredths(delta, prev)

\* lines 63-72
calc_theta_from_flow(prices) ==
  IF Len(prices) < 2 THEN FromInt(0)
  ELSE LET last == Close(prices, Len(prices))
           prev == Close(prices, Len(prices) - 1)
           delta == FSub(last, prev)
       IN  Dec(ThetaAngle(delta, prev), 100)

MaxThetaLen == 3
ThetaSeries == SeqsUpTo(ThetaPrices, MaxThetaLen)

CalcTheta ==
  /\ pc = "theta_entry"
  /\ result' = calc_theta_from_flow(series)
  /\ pc' = "done"
  /\ UNCHANGED <<series, emaVars, zrVars, stockVars>>

InitTheta ==
  /\ series \in ThetaSeries
  /\ pc = "theta_entry"
  /\ result = Unbound
  /\ IdleEma
  /\ IdleZR
  /\ IdleStock

NextTheta == CalcTheta

SpecTheta == InitTheta /\ [][NextTheta]_vars

(***************************************************************************)
(* Properties of calc_theta_from_flow, checked under SpecTheta             *)
(***************************************************************************)
LastTwoEqual(prices) ==
  Len(prices) >= 2 /\ prices[Len(prices)] = prices[Len(prices) - 1]

\* C6 as stated: a series whose last two elements equal the same nonzero
\* value x, positive or negative, has theta 0.
C6_FlatStepThetaZero ==
  (pc = "done" /\ LastTwoEqual(series) /\ series[Len(series)] # 0)
    => FEq(result, FromInt(0))

\* C6 amended: a series whose last two elements equal the same value x has
\* theta 0 when x > 0 and theta 180 when x < 0.
C6_FlatStepThetaBySign ==
  (pc = "done" /\ LastTwoEqual(series))
    => /\ series[Len(series)] > 0 => FEq(result, FromInt(0))
       /\ series[Len(series)] < 0 => FEq(result, FromInt(180))

C6_Witness ==
  /\ pc = "done" /\ LastTwoEqual(series) /\ Len(series) > 2
  /\ series[Len(series)] > 0
  /\ series[1] # series[Len(series)]
  /\ FEq(result, FromInt(0))

(***************************************************************************)
(* Median, MAD and rounding, shared by calc_z and calc_r                   *)
(***************************************************************************)
\* The prices of a series as numbers
Floats(prices) == [i \in 1..Len(prices) |-> Close(prices, i)]

\* The k-th smallest of the values: the one with fewer than k values below it
\* and at least k values not above it
KthSmallest(vals, k) ==
  vals[CHOOSE i \in DOMAIN vals :
         /\ Cardinality({j \in DOMAIN vals : FLess(vals[j], vals[i])}) < k
         /\ Cardinality({j \in DOMAIN vals : FLeq(vals[j], vals[i])}) >= k]

\* a / 2, exact
FHalf(a) == IF IsZero(a) \/ IsNonFinite(a) THEN a ELSE [a EXCEPT !.e = a.e - 1]

\* Series.median() of a non-empty series of n values: the middle element, or
\* the mean of the two middle elements
MiddleOf(n, lower, upper) == IF n % 2 = 1 THEN lower ELSE FHalf(FAdd(lower, upper))

Median(vals) ==
  MiddleOf(Len(vals), KthSmallest(vals, (Len(vals) + 1) \div 2),
           KthSmallest(vals, Len(vals) \div 2 + 1))

\* (prices - median).abs().median()
Mad(vals, median) == Median([i \in 1..Len(vals) |-> FAbs(FSub(vals[i], median))])

\* round(x, 2) of a numpy float: rint(x * 100) / 100
Round2By(x, scale) == FDiv(FRint(FMul(x, scale)), scale)
Round2(x) == Round2By(x, FromInt(100))

(***************************************************************************)
(* calc_z                                                                  *)
(***************************************************************************)
\* line 76
MinZLen == 21

\* Mutant: no guard against a zero MAD
ZMadIsZero_Never(mad) == FALSE

\* line 80
ZMadIsZero(mad) == IsZero(mad)

\* lines 80-83; the value returned and the divisors of the divisions executed
ZScore(cur, median, mad) ==
  IF ZMadIsZero(mad) THEN [value |-> FromInt(0), divisors |-> <<>>]
  ELSE [value |-> Round2(FDiv(FSub(cur, median), mad)), divisors |-> <<mad>>]

\* line 79
ZAbout(vals, cur, median) == ZScore(cur, median, Mad(vals, median))

\* lines 75-83
calc_z(prices, cur) ==
  IF Len(prices) < MinZLen THEN [value |-> FromInt(0), divisors |-> <<>>]
  ELSE ZAbout(Floats(prices), cur, Median(Floats(prices)))

(***************************************************************************)
(* calc_r                                                                  *)
(***************************************************************************)
\* line 88
MinRLen == 35

\* lines 91, 101, 102
LookBack == 34

\* line 97
RMadUndefined(mad) == IsZero(mad)

\* lines 97-99: the rolling z-score, None when undefined, and the divisors of
\* the divisions executed
RollingScore(last, median, mad) ==
  IF RMadUndefined(mad) THEN [z |-> None, divisors |-> <<>>]
  ELSE [z |-> FDiv(FSub(last, median), mad), divisors |-> <<mad>>]

\* line 96
RollingAbout(last, recent, median) == RollingScore(last, median, Mad(recent, median))

\* line 95
RollingOver(last, recent) == RollingAbout(last, recent, Median(recent))

\* lines 91-99
rolling_z(prices, lookback) ==
  IF Len(prices) < lookback THEN [z |-> None, divisors |-> <<>>]
  ELSE RollingOver(Close(prices, Len(prices)),
                   Floats(SubSeq(prices, Len(prices) - lookback + 1, Len(prices))))

\* prices.iloc[:-1]
Trimmed(prices) == SubSeq(prices, 1, Len(prices) - 1)

\* Mutant: z_prev only if the trimmed series has more than lookback points
PrevComputed_TrimmedLonger(prices) == Len(prices) - 1 > LookBack

\* line 102: the condition under which z_prev is computed
PrevComputed(prices) == Len(prices) > LookBack

\* line 102
PrevZ(prices) ==
  IF PrevComputed(prices) THEN rolling_z(Trimmed(prices), LookBack)
  ELSE [z |-> None, divisors |-> <<>>]

\* Python's min(a, b) and max(a, b): b only if it is strictly beyond a
PyMin(a, b) == IF FLess(b, a) THEN b ELSE a
PyMax(a, b) == IF FLess(a, b) THEN b ELSE a

\* Mutant: no clamping
Clamp_None(r) == r

\* line 107: max(-5, min(5, r))
Clamp(r) == PyMax(FromInt(-5), PyMin(FromInt(5), r))

\* Mutant: no test of z_prev against zero
RDegraded_NoZeroTest(zc, zp) == zc = None \/ zp = None

\* line 104
RDegraded(zc, zp) == zc = None \/ zp = None \/ IsZero(zp)

\* lines 105-107
RClamped(r, zp) == [ratio |-> r, value |-> Round2(Clamp(r)), divisors |-> <<zp>>]

\* lines 104-107
RFinish(zc, zp) ==
  IF RDegraded(zc, zp)
  THEN [ratio |-> Unbound, value |-> FromInt(1), divisors |-> <<>>]
  ELSE RClamped(FDiv(zc, zp), zp)

\* lines 87-107 as a function, for its callers
calc_r(prices) ==
  IF Len(prices) < MinRLen THEN FromInt(1)
  ELSE RFinish(rolling_z(prices, LookBack).z, PrevZ(prices).z).value

CalcZ ==
  /\ pc = "z_entry"
  /\ LET out == calc_z(series, PriceTable[current])
     IN  /\ result' = out.value
         /\ divisors' = divisors \o out.divisors
  /\ pc' = "done"
  /\ UNCHANGED <<series, current, z_curr, z_prev, ratio, emaVars, stockVars>>

InitZ ==
  /\ series \in ZSeries
  /\ current \in TailPrices
  /\ z_curr = Unbound
  /\ z_prev = Unbound
  /\ ratio = Unbound
  /\ divisors = <<>>
  /\ pc = "z_entry"
  /\ result = Unbound
  /\ IdleEma
  /\ IdleStock

NextZ == CalcZ

SpecZ == InitZ /\ [][NextZ]_vars

\* lines 88-89
REnter ==
  /\ pc = "r_entry"
  /\ IF Len(series) < MinRLen
     THEN result' = FromInt(1) /\ pc' = "done"
     ELSE pc' = "r_curr" /\ UNCHANGED result
  /\ UNCHANGED <<series, zrVars, emaVars, stockVars>>

\* line 101
RCurr ==
  /\ pc = "r_curr"
  /\ LET out == rolling_z(series, LookBack)
     IN  z_curr' = out.z /\ divisors' = divisors \o out.divisors
  /\ pc' = "r_prev"
  /\ UNCHANGED <<series, result, current, z_prev, ratio, emaVars, stockVars>>

\* line 102
RPrev ==
  /\ pc = "r_prev"
  /\ LET out == PrevZ(series)
     IN  z_prev' = out.z /\ divisors' = divisors \o out.divisors
  /\ pc' = "r_ratio"
  /\ UNCHANGED <<series, result, current, z_curr, ratio, emaVars, stockVars>>

\* lines 104-107
RReturn ==
  /\ pc = "r_ratio"
  /\ LET out == RFinish(z_curr, z_prev)
     IN  /\ ratio' = out.ratio
         /\ result' = out.value
         /\ divisors' = divisors \o out.divisors
  /\ pc' = "done"
  /\ UNCHANGED <<series, current, z_curr, z_prev, emaVars, stockVars>>

InitR ==
  /\ series \in RSeries
  /\ IdleZR
  /\ pc = "r_entry"
  /\ result = Unbound
  /\ IdleEma
  /\ IdleStock

NextR == REnter \/ RCurr \/ RPrev \/ RReturn

SpecR == InitR /\ [][NextR]_vars

(***************************************************************************)
(* Properties of calc_z, checked under SpecZ                               *)
(***************************************************************************)
NoZeroDivisor == \A i \in 1..Len(divisors) : ~IsZero(divisors[i])

\* C7: calc_z returns 0 whenever every element of the series is identical,
\* whatever the length and whatever the current value, and it divides by no
\* zero MAD.
C7_FlatSeriesZeroZ ==
  /\ NoZeroDivisor
  /\ (pc = "done" /\ IsConstant(series))
       => FEq(result, FromInt(0)) /\ divisors = <<>>

C7_Witness ==
  /\ pc = "done" /\ IsConstant(series) /\ Len(series) >= MinZLen
  /\ current # series[1]
  /\ FEq(result, FromInt(0))

(***************************************************************************)
(* Properties of calc_r, checked under SpecR                               *)
(***************************************************************************)
\* More than half of the elements of w are one value: exactly then the
\* median is that value and the median absolute deviation is zero
HasMajority(w) ==
  \E i \in 1..Len(w) : 2 * Cardinality({j \in 1..Len(w) : w[j] = w[i]}) > Len(w)

\* The trailing window of the full series and of the series without its
\* last point
WindowCurr == SubSeq(series, Len(series) - LookBack + 1, Len(series))
WindowPrev == SubSeq(series, Len(series) - LookBack, Len(series) - 1)

\* C1: calc_r returns a value in [-5, 5] for every series.
C1_RWithinBounds ==
  pc = "done"
    => /\ IsNumber(result)
       /\ FLeq(FromInt(-5), result)
       /\ FLeq(result, FromInt(5))

C1_Witness ==
  /\ pc = "done" /\ IsNumber(ratio)
  /\ FLess(FromInt(5), ratio)
  /\ FEq(result, FromInt(5))

\* C2: calc_r divides by no zero and returns exactly 1.0 in every degraded
\* case: fewer than 35 points, a zero MAD of the trailing window of the full
\* or of the trimmed series, or z_prev = 0; z_curr / z_prev is evaluated only
\* with both defined and z_prev nonzero.
C2_DegradedGivesOne ==
  /\ NoZeroDivisor
  /\ pc = "done"
       => /\ (\/ Len(series) < MinRLen
              \/ HasMajority(WindowCurr)
              \/ HasMajority(WindowPrev)
              \/ (IsNumber(z_prev) /\ IsZero(z_prev)))
               => FEq(result, FromInt(1)) /\ ratio = Unbound
          /\ ratio # Unbound
               => IsNumber(z_curr) /\ IsNumber(z_prev) /\ ~IsZero(z_prev)

C2_Witness ==
  /\ pc = "done" /\ Len(series) >= MinRLen
  /\ IsNumber(z_curr) /\ IsNumber(z_prev) /\ IsZero(z_prev)
  /\ Len(divisors) = 2
  /\ FEq(result, FromInt(1))

\* C9 as stated: z_prev is computed only if the trimmed series has more than
\* 34 points, so a series of exactly 35 points has z_prev undefined and
\* result 1.0.
C9_ThirtyFivePointsGiveOne ==
  /\ IsNumber(z_prev) => Len(series) - 1 > LookBack
  /\ (pc = "done" /\ Len(series) = MinRLen)
       => z_prev = None /\ FEq(result, FromInt(1))

\* C9 amended: z_prev is computed whenever the full series has more than 34
\* points, that is whenever the trimmed series has at least 34; for a series
\* of 35 points or more it is undefined exactly when the MAD of the 34 points
\* before the last one is zero, and otherwise enters the ratio unless it is 0.
C9_PrevComputedFromThirtyFive ==
  /\ IsNumber(z_prev) => Len(series) - 1 >= LookBack
  /\ (pc \in {"r_ratio", "done"} /\ Len(series) >= MinRLen)
       => (z_prev = None <=> HasMajority(WindowPrev))
  /\ (pc = "done" /\ Len(series) >= MinRLen /\ IsNumber(z_curr)
        /\ IsNumber(z_prev) /\ ~IsZero(z_prev))
       => IsNumber(ratio)

C9_Witness ==
  /\ pc = "done" /\ Len(series) = MinRLen
  /\ IsNumber(z_prev) /\ IsNumber(ratio)
  /\ ~FEq(result, FromInt(1))

(***************************************************************************)
(* get_stock_data: the retrieval, the emptiness check and the order of the *)
(* calculator calls.  A frame is its Close column and whether it has       *)
(* columns at all (an empty frame may come without any).  env says whether *)
(* the retrieval raises, whether an empty frame has columns, and whether   *)
(* the 52-week and info part raises.                                       *)
(***************************************************************************)
MaxCandles == 2
StockPrices == {10200, 10500}
StockSeries == SeqsUpTo(StockPrices, MaxCandles)

Frame(closes, emptyHasColumns) ==
  [close |-> closes, columns |-> (closes # <<>> \/ emptyHasColumns)]

\* DataFrame.empty
IsEmpty(frame) == Len(frame.close) = 0

\* lines 50-59: the periods of the four EMA calls, in call order
EmaPeriods == <<34, 55, 21, 13>>

Call(fn, tf, prices) == [fn |-> fn, tf |-> tf, len |-> Len(prices)]

EmaCalls(tf, prices) ==
  [i \in 1..Len(EmaPeriods) |-> Call("calculate_ema", tf, prices)]

\* One psi_ema_* entry of the report, lines 177-200
Bundle(prices, cur) ==
  [theta |-> calc_theta_from_flow(prices),
   z |-> calc_z(prices, cur).value,
   r |-> calc_r(prices),
   ema_34 |-> calculate_ema(prices, EmaPeriods[1]),
   ema_55 |-> calculate_ema(prices, EmaPeriods[2]),
   ema_21 |-> calculate_ema(prices, EmaPeriods[3]),
   ema_13 |-> calculate_ema(prices, EmaPeriods[4]),
   candles |-> Len(prices)]

ErrorObject == [kind |-> "error"]

\* lines 28-40, and the except clause of lines 211-212
StockFetch ==
  /\ pc = "stock_entry"
  /\ IF env.fetchRaises
     THEN result' = ErrorObject /\ pc' = "done"
     ELSE pc' = "check_daily" /\ UNCHANGED result
  /\ UNCHANGED <<series, emaVars, zrVars, stockVars>>

\* lines 42-47
StockCheckDaily ==
  /\ pc = "check_daily"
  /\ IF IsEmpty(hist_daily)
     THEN result' = ErrorObject /\ pc' = "done"
     ELSE pc' = "daily_ema" /\ UNCHANGED result
  /\ UNCHANGED <<series, emaVars, zrVars, stockVars>>

\* lines 50-53
StockDailyEma ==
  /\ pc = "daily_ema"
  /\ calls' = calls \o EmaCalls("daily", hist_daily.close)
  /\ pc' = "weekly_ema"
  /\ UNCHANGED <<series, result, emaVars, zrVars, hist_daily, hist_weekly, env>>

\* lines 56-59: hist_weekly['Close'] raises KeyError on a frame without columns
StockWeeklyEma ==
  /\ pc = "weekly_ema"
  /\ IF ~hist_weekly.columns
     THEN result' = ErrorObject /\ pc' = "done" /\ UNCHANGED calls
     ELSE /\ calls' = calls \o EmaCalls("weekly", hist_weekly.close)
          /\ pc' = "daily_dims"
          /\ UNCHANGED result
  /\ UNCHANGED <<series, emaVars, zrVars, hist_daily, hist_weekly, env>>

\* lines 110-112
StockDailyDims ==
  /\ pc = "daily_dims"
  /\ calls' = calls \o <<Call("calc_theta_from_flow", "daily", hist_daily.close),
                          Call("calc_z", "daily", hist_daily.close),
                          Call("calc_r", "daily", hist_daily.close)>>
  /\ pc' = "weekly_dims"
  /\ UNCHANGED <<series, result, emaVars, zrVars, hist_daily, hist_weekly, env>>

\* lines 115-117: the argument hist_weekly['Close'].iloc[-1] of line 116
\* raises IndexError on an empty column, after the theta call of line 115
StockWeeklyDims ==
  /\ pc = "weekly_dims"
  /\ IF IsEmpty(hist_weekly)
     THEN /\ calls' = Append(calls, Call("calc_theta_from_flow", "weekly", hist_weekly.close))
          /\ result' = ErrorObject
          /\ pc' = "done"
     ELSE /\ calls' = calls \o <<Call("calc_theta_from_flow", "weekly", hist_weekly.close),
                                  Call("calc_z", "weekly", hist_weekly.close),
                                  Call("calc_r", "weekly", hist_weekly.close)>>
          /\ pc' = "report"
          /\ UNCHANGED result
  /\ UNCHANGED <<series, emaVars, zrVars, hist_daily, hist_weekly, env>>

\* lines 120-209, and the except clause of lines 211-212
StockReport ==
  /\ pc = "report"
  /\ IF env.reportRaises
     THEN result' = ErrorObject
     ELSE result' =
            [kind |-> "report",
             psi_ema_daily |->
               Bundle(hist_daily.close, Close(hist_daily.close, Len(hist_daily.close))),
             psi_ema_weekly |->
               Bundle(hist_weekly.close, Close(hist_weekly.close, Len(hist_weekly.close)))]
  /\ pc' = "done"
  /\ UNCHANGED <<series, emaVars, zrVars, stockVars>>

InitStock ==
  /\ env \in [fetchRaises : BOOLEAN, emptyHasColumns : BOOLEAN, reportRaises : BOOLEAN]
  /\ \E d \in StockSeries, w \in StockSeries :
       /\ hist_daily = Frame(d, env.emptyHasColumns)
       /\ hist_weekly = Frame(w, env.emptyHasColumns)
  /\ calls = <<>>
  /\ series = <<>>
  /\ pc = "stock_entry"
  /\ result = Unbound
  /\ IdleEma
  /\ IdleZR

NextStock ==
  \/ StockFetch
  \/ StockCheckDaily
  \/ StockDailyEma
  \/ StockWeeklyEma
  \/ StockDailyDims
  \/ StockWeeklyDims
  \/ StockReport

SpecStock == InitStock /\ [][NextStock]_vars

(***************************************************************************)
(* Properties of get_stock_data, checked under SpecStock                   *)
(***************************************************************************)
\* C8: every calculator call receives a non-empty series, and whenever the
\* daily or the weekly series is empty the function returns the error object
\* before any calculator is called on that series.
C8_CoreNeverGetsEmptySeries ==
  /\ \A i \in 1..Len(calls) : calls[i].len > 0
  /\ (pc = "done" /\ ~env.fetchRaises /\ (IsEmpty(hist_daily) \/ IsEmpty(hist_weekly)))
       => /\ result = ErrorObject
          /\ IsEmpty(hist_daily)
               => \A i \in 1..Len(calls) : calls[i].tf # "daily"
          /\ IsEmpty(hist_weekly)
               => \A i \in 1..Len(calls) : calls[i].tf # "weekly"

====
